---- MODULE Spec2Model ----
(***************************************************************************)
(* SiteScapr backend: the zone metrics store (database.py), the scoring    *)
(* and ranking engine (scoring_engine.py) and the endpoints that tie them  *)
(* together (main.py).                                                     *)
(*                                                                         *)
(* Numbers.  The program computes in Python floats (IEEE-754 binary64).    *)
(* A float is modelled exactly, as sign, 53-bit mantissa and exponent; the *)
(* mantissa is an unbounded natural kept as little-endian limbs base 2^13, *)
(* because the model checker's integers are 32 bits wide.  Every float     *)
(* operation is the exact operation followed by round-to-nearest-even.     *)
(* A value produced by Python's round(x, n) is kept as the integer         *)
(* x * 10^n (index values in hundredths, display scores in tenths,         *)
(* sub-scores in ten-thousandths); the float it stands for is the double   *)
(* nearest to that decimal.                                                *)
(***************************************************************************)
EXTENDS Integers, Sequences, FiniteSets, TLC

\* ------------------------------------------------------------------------
\* Unbounded naturals
\* ------------------------------------------------------------------------

Base == 8192

\* 2^n for n in 0..13
Pow2(n) == <<1, 2, 4, 8, 16, 32, 64, 128, 256, 512, 1024, 2048, 4096, 8192>>[n + 1]

Max(S) == CHOOSE x \in S : \A y \in S : y <= x

Abs(n) == IF n < 0 THEN -n ELSE n

BLimb(a, i) == IF 1 <= i /\ i <= Len(a) THEN a[i] ELSE 0

\* drop the high zero limbs
BNorm(a) == SubSeq(a, 1, Max({0} \cup {i \in 1..Len(a) : a[i] # 0}))

\* 0 <= n < 2^31
BFromInt(n) ==
  BNorm(<<n % Base, (n \div Base) % Base, n \div (Base * Base)>>)

\* a < 2^31
BToInt(a) == BLimb(a, 1) + Base * BLimb(a, 2) + Base * Base * BLimb(a, 3)

BCmp(a, b) ==
  IF Len(a) > Len(b) THEN 1
  ELSE IF Len(a) < Len(b) THEN -1
  ELSE LET D == {i \in 1..Len(a) : a[i] # b[i]}
       IN  IF D = {} THEN 0 ELSE IF a[Max(D)] > b[Max(D)] THEN 1 ELSE -1

BShiftLimbs(a, n) == IF a = <<>> THEN <<>> ELSE [i \in 1..n |-> 0] \o a

BBitLen(a) ==
  IF a = <<>> THEN 0
  ELSE 13 * (Len(a) - 1) + Cardinality({k \in 0..12 : Pow2(k) <= a[Len(a)]})

BIsOdd(a) == a # <<>> /\ a[1] % 2 = 1

\* bit k of a, counted from 0
BBit(a, k) == (BLimb(a, k \div 13 + 1) \div Pow2(k % 13)) % 2

\* some bit of a below bit k is set
BLowBits(a, k) ==
  \/ BLimb(a, k \div 13 + 1) % Pow2(k % 13) # 0
  \/ \E j \in 1..(k \div 13) : BLimb(a, j) # 0

\* The larger operations are evaluated through one dispatcher, Arith: the
\* name of the operation and the tuple of its arguments.
RECURSIVE Arith(_, _)

BAdd(a, b) == Arith("BAdd", <<a, b>>)
BSub(a, b) == Arith("BSub", <<a, b>>)
BMul(a, b) == Arith("BMul", <<a, b>>)
BasePowers(d) == Arith("BasePowers", <<d>>)
BDivSmall(a, d) == Arith("BDivSmall", <<a, d>>)
BShl(a, n) == Arith("BShl", <<a, n>>)
BShr(a, n) == Arith("BShr", <<a, n>>)
BRoundShr(a, n, sticky) == Arith("BRoundShr", <<a, n, sticky>>)
FRound(neg, M, e, sticky) == Arith("FRound", <<neg, M, e, sticky>>)
FFromInt(n) == Arith("FFromInt", <<n>>)
FFromDec(n, p) == Arith("FFromDec", <<n, p>>)
FMul(x, y) == Arith("FMul", <<x, y>>)
FDivSmall(x, d) == Arith("FDivSmall", <<x, d>>)
FAdd(x, y) == Arith("FAdd", <<x, y>>)
PyRound(x, p) == Arith("PyRound", <<x, p>>)

\* limb i of a + b receives a carry when a lower limb pair overflows and
\* every pair in between is full
BAddDef(a, b) ==
  LET s(i)     == BLimb(a, i) + BLimb(b, i)
      carry(i) == IF \E j \in 1..(i - 1) :
                       s(j) >= Base /\ \A k \in (j + 1)..(i - 1) : s(k) = Base - 1
                  THEN 1 ELSE 0
  IN  BNorm([i \in 1..(Max({Len(a), Len(b)}) + 1) |-> (s(i) + carry(i)) % Base])

\* a - b for a >= b
BSubDef(a, b) ==
  LET borrow(i) == IF \E j \in 1..(i - 1) :
                        a[j] < BLimb(b, j)
                        /\ \A k \in (j + 1)..(i - 1) : a[k] = BLimb(b, k)
                   THEN 1 ELSE 0
  IN  BNorm([i \in 1..Len(a) |-> (a[i] - BLimb(b, i) - borrow(i) + Base) % Base])

\* a * b for a of at most 5 limbs (a 53-bit mantissa): the column sums stay
\* below 2^29 and are added as three numbers of base-2^13 digits
BMulDef(a, b) ==
  LET n       == Len(a) + Len(b)
      T(c, i) == BLimb(a, i) * BLimb(b, c + 1 - i)
      col(c)  == T(c, 1) + T(c, 2) + T(c, 3) + T(c, 4) + T(c, 5)
      cols    == SubSeq([c \in 1..n |-> col(c)], 1, n)
      D0      == BNorm([c \in 1..n |-> cols[c] % Base])
      D1      == BNorm([c \in 1..n |-> (cols[c] \div Base) % Base])
      D2      == BNorm([c \in 1..n |-> cols[c] \div (Base * Base)])
  IN  IF a = <<>> \/ b = <<>> THEN <<>>
      ELSE BAdd(BAdd(D0, BShiftLimbs(D1, 1)), BShiftLimbs(D2, 2))

\* a * k for 0 <= k < 2^31
BMulSmall(a, k) == BMul(a, BFromInt(k))

\* Base^k mod d for k in 0..15, 0 < d <= 10000
BasePowMod(k, d) ==
  LET p1 == Base % d
      p2 == (p1 * p1) % d
      p4 == (p2 * p2) % d
      p8 == (p4 * p4) % d
      f1 == IF k % 2 = 1 THEN p1 ELSE 1
      f2 == IF (k \div 2) % 2 = 1 THEN p2 ELSE 1
      f4 == IF (k \div 4) % 2 = 1 THEN p4 ELSE 1
      f8 == IF (k \div 8) % 2 = 1 THEN p8 ELSE 1
  IN  (((f1 * f2) % d) * ((f4 * f8) % d)) % d

\* Base^0 .. Base^11 mod d
BasePowersDef(d) == SubSeq([k \in 1..12 |-> BasePowMod(k - 1, d)], 1, 12)

\* quotient and remainder of a by d, 0 < d <= 10000, a of at most 12 limbs
BDivSmallDef(a, d) ==
  LET n      == Len(a)
      Rems(bp) ==
        LET t(i, j) == IF i <= j /\ j <= n THEN a[j] * bp[j - i + 1] ELSE 0
        \* the limbs from i upwards, taken as a number, modulo d
        IN  [i \in 1..(n + 1) |->
               (t(i, 1) + t(i, 2) + t(i, 3) + t(i, 4) + t(i, 5) + t(i, 6)
                + t(i, 7) + t(i, 8) + t(i, 9) + t(i, 10) + t(i, 11)
                + t(i, 12)) % d]
      rs     == SubSeq(Rems(BasePowers(d)), 1, n + 1)
  IN  [q |-> BNorm([i \in 1..n |-> (rs[i + 1] * Base + a[i]) \div d]),
       r |-> rs[1]]

\* a * 2^n
BShlDef(a, n) ==
  LET l == n \div 13
      s == n % 13
      limb(j) == (BLimb(a, j) % Pow2(13 - s)) * Pow2(s)
                 + BLimb(a, j - 1) \div Pow2(13 - s)
  IN  BShiftLimbs(BNorm([j \in 1..(Len(a) + 1) |-> limb(j)]), l)

\* floor(a / 2^n)
BShrDef(a, n) ==
  LET l == n \div 13
      s == n % 13
      limb(j) == BLimb(a, j + l) \div Pow2(s)
                 + (BLimb(a, j + l + 1) % Pow2(s)) * Pow2(13 - s)
  IN  BNorm([j \in 1..(Len(a) - l) |-> limb(j)])

\* round-half-to-even of (a + s) / 2^n, n >= 1, where the sticky flag s
\* stands for a discarded positive amount smaller than one unit of a
BRoundShrDef(a, n, sticky) ==
  LET q  == BShr(a, n)
      up == BBit(a, n - 1) = 1 /\ (BLowBits(a, n - 1) \/ sticky \/ BIsOdd(q))
  IN  IF up THEN BAdd(q, <<1>>) ELSE q

\* ------------------------------------------------------------------------
\* IEEE-754 binary64 (Python float).  [neg, m, e] is (-1)^neg * m * 2^e with
\* 2^52 <= m < 2^53, or m = 0.  Exponents stay far from the format's limits
\* for every value the program computes here.
\* ------------------------------------------------------------------------

FZero == [neg |-> FALSE, m |-> <<>>, e |-> 0]

\* the double nearest to (-1)^neg * (M + sticky) * 2^e
FRoundDef(neg, M, e, sticky) ==
  IF M = <<>> THEN FZero
  ELSE LET L == BBitLen(M)
           d == L - 53
           Carried(q) ==
             IF BBitLen(q) = 54
               THEN [neg |-> neg, m |-> BShr(q, 1), e |-> e + d + 1]
               ELSE [neg |-> neg, m |-> q, e |-> e + d]
       IN  IF L <= 53
           THEN [neg |-> neg, m |-> BShl(M, 53 - L), e |-> e - (53 - L)]
           ELSE Carried(BRoundShr(M, d, sticky))

\* int -> float
FFromIntDef(n) == FRound(n < 0, BFromInt(Abs(n)), 0, FALSE)

\* the double nearest to n / p, 0 < p <= 10000: a decimal literal or a parsed
\* JSON number with p a power of ten
FFromDecDef(n, p) ==
  LET Rounded(dv) == FRound(n < 0, dv.q, -75, dv.r # 0)
  IN  Rounded(BDivSmall(BShl(BFromInt(Abs(n)), 75), p))

FNeg(x) == IF x.m = <<>> THEN x ELSE [x EXCEPT !.neg = ~x.neg]

FMulDef(x, y) ==
  IF x.m = <<>> \/ y.m = <<>> THEN FZero
  ELSE FRound(x.neg # y.neg, BMul(x.m, y.m), x.e + y.e, FALSE)

\* x / d for an integer 0 < d <= 10000
FDivSmallDef(x, d) ==
  IF x.m = <<>> THEN FZero
  ELSE LET Rounded(dv) == FRound(x.neg, dv.q, x.e - 30, dv.r # 0)
       IN  Rounded(BDivSmall(BShl(x.m, 30), d))

FAddDef(x, y) ==
  IF x.m = <<>> THEN y
  ELSE IF y.m = <<>> THEN x
  ELSE LET e == IF x.e < y.e THEN x.e ELSE y.e
           Sum(X, Y) ==
             IF x.neg = y.neg THEN FRound(x.neg, BAdd(X, Y), e, FALSE)
             ELSE IF BCmp(X, Y) = 0 THEN FZero
             ELSE IF BCmp(X, Y) = 1 THEN FRound(x.neg, BSub(X, Y), e, FALSE)
             ELSE FRound(y.neg, BSub(Y, X), e, FALSE)
       IN  Sum(BShl(x.m, x.e - e), BShl(y.m, y.e - e))

\* Python round(x, n) with p = 10^n: the exact binary value of x rounded
\* half-to-even to n decimals, returned as the integer round(x * p)
PyRoundDef(x, p) ==
  IF x.m = <<>> THEN 0
  ELSE LET N == BMulSmall(x.m, p)
           T == IF x.e >= 0 THEN BToInt(BShl(N, x.e))
                ELSE BToInt(BRoundShr(N, -x.e, FALSE))
       IN  IF x.neg THEN -T ELSE T

Arith(op, a) ==
  CASE op = "BAdd"       -> BAddDef(a[1], a[2])
    [] op = "BSub"       -> BSubDef(a[1], a[2])
    [] op = "BMul"       -> BMulDef(a[1], a[2])
    [] op = "BasePowers" -> BasePowersDef(a[1])
    [] op = "BDivSmall"  -> BDivSmallDef(a[1], a[2])
    [] op = "BShl"       -> BShlDef(a[1], a[2])
    [] op = "BShr"       -> BShrDef(a[1], a[2])
    [] op = "BRoundShr"  -> BRoundShrDef(a[1], a[2], a[3])
    [] op = "FRound"     -> FRoundDef(a[1], a[2], a[3], a[4])
    [] op = "FFromInt"   -> FFromIntDef(a[1])
    [] op = "FFromDec"   -> FFromDecDef(a[1], a[2])
    [] op = "FMul"       -> FMulDef(a[1], a[2])
    [] op = "FDivSmall"  -> FDivSmallDef(a[1], a[2])
    [] op = "FAdd"       -> FAddDef(a[1], a[2])
    [] op = "PyRound"    -> PyRoundDef(a[1], a[2])

FSub(x, y) == FAdd(x, FNeg(y))

\* -1, 0, 1 as |x| < |y|, |x| = |y|, |x| > |y|: mantissas are normalised, so
\* the exponent decides first
FCmpAbs(x, y) ==
  IF x.m = <<>> THEN (IF y.m = <<>> THEN 0 ELSE -1)
  ELSE IF y.m = <<>> THEN 1
  ELSE IF x.e > y.e THEN 1
  ELSE IF x.e < y.e THEN -1
  ELSE BCmp(x.m, y.m)

\* -1, 0, 1 as x < y, x = y, x > y
FCmp(x, y) ==
  IF x.neg /\ ~y.neg THEN -1
  ELSE IF ~x.neg /\ y.neg THEN 1
  ELSE IF x.neg THEN -FCmpAbs(x, y)
  ELSE FCmpAbs(x, y)

FGt(x, y) == FCmp(x, y) = 1
FLt(x, y) == FCmp(x, y) = -1
FGe(x, y) == FCmp(x, y) >= 0

\* ------------------------------------------------------------------------
\* scoring_engine.py: the weighting model
\* ------------------------------------------------------------------------

\* A business type is a string, modelled as its sequence of characters so
\* that lower() and strip() act on it as they do in Python.
UpperCase == <<"A","B","C","D","E","F","G","H","I","J","K","L","M",
               "N","O","P","Q","R","S","T","U","V","W","X","Y","Z">>
LowerCase == <<"a","b","c","d","e","f","g","h","i","j","k","l","m",
               "n","o","p","q","r","s","t","u","v","w","x","y","z">>
Whitespace == {" ", "\t", "\n"}

LowerChar(c) ==
  IF \E i \in 1..26 : UpperCase[i] = c
  THEN LowerCase[CHOOSE i \in 1..26 : UpperCase[i] = c]
  ELSE c

\* str.lower()
Lower(s) == [i \in 1..Len(s) |-> LowerChar(s[i])]

RECURSIVE LStrip(_)
LStrip(s) ==
  IF s # <<>> /\ s[1] \in Whitespace THEN LStrip(Tail(s)) ELSE s

RECURSIVE RStrip(_)
RStrip(s) ==
  IF s # <<>> /\ s[Len(s)] \in Whitespace
  THEN RStrip(SubSeq(s, 1, Len(s) - 1)) ELSE s

\* str.strip()
Strip(s) == RStrip(LStrip(s))

\* the keys of CLUSTERING_BENEFIT and _PROFILES
K_tech_office == <<"t", "e", "c", "h", " ", "o", "f", "f", "i", "c", "e">>
K_medical_clinic == <<"m", "e", "d", "i", "c", "a", "l", " ", "c", "l", "i", "n", "i", "c">>
K_educational_institute == <<"e", "d", "u", "c", "a", "t", "i", "o", "n", "a", "l", " ", "i", "n", "s", "t", "i", "t", "u", "t", "e">>
K_restaurant == <<"r", "e", "s", "t", "a", "u", "r", "a", "n", "t">>
K_cafe == <<"c", "a", "f", "e">>
K_retail_store == <<"r", "e", "t", "a", "i", "l", " ", "s", "t", "o", "r", "e">>
K_supermarket == <<"s", "u", "p", "e", "r", "m", "a", "r", "k", "e", "t">>
K_salon_beauty == <<"s", "a", "l", "o", "n", " ", "&", " ", "b", "e", "a", "u", "t", "y">>
K_hotel_hospitality == <<"h", "o", "t", "e", "l", " ", "/", " ", "h", "o", "s", "p", "i", "t", "a", "l", "i", "t", "y">>
K_souvenir_gift_shop == <<"s", "o", "u", "v", "e", "n", "i", "r", " ", "/", " ", "g", "i", "f", "t", " ", "s", "h", "o", "p">>
K_pharmacy == <<"p", "h", "a", "r", "m", "a", "c", "y">>
K_gym_fitness_centre == <<"g", "y", "m", " ", "/", " ", "f", "i", "t", "n", "e", "s", "s", " ", "c", "e", "n", "t", "r", "e">>

\* clustering benefit factor by business type, in hundredths
ClusteringTable ==
     K_restaurant :> 50
  @@ K_cafe :> 50
  @@ K_retail_store :> 30
  @@ K_supermarket :> 30
  @@ K_salon_beauty :> 30
  @@ K_hotel_hospitality :> 20
  @@ K_souvenir_gift_shop :> 35
  @@ K_gym_fitness_centre :> 15
  @@ K_pharmacy :> 15
  @@ K_tech_office :> 0
  @@ K_medical_clinic :> 0
  @@ K_educational_institute :> 0

DefaultClustering == 15

\* dict.get(key, default) on a table keyed by character sequences
DictGet(table, key, default) ==
  IF key \in DOMAIN table THEN table[key] ELSE default

\* the float a two-decimal literal denotes
Lit2(w) == FFromDec(w, 100)

CLUSTERING_BENEFIT == [k \in DOMAIN ClusteringTable |-> Lit2(ClusteringTable[k])]

DEFAULT_CLUSTERING_BENEFIT == Lit2(DefaultClustering)

\* the lookup with the key lower-cased but not stripped
clustering_benefit_unstripped(business_type) ==
  DictGet(CLUSTERING_BENEFIT, Lower(business_type), DEFAULT_CLUSTERING_BENEFIT)

clustering_benefit(business_type) ==
  DictGet(CLUSTERING_BENEFIT, Strip(Lower(business_type)),
          DEFAULT_CLUSTERING_BENEFIT)

\* weight profiles in hundredths: <<demand, friction, growth>>, each a triple
ProfileTable ==
     K_tech_office :> <<<<55, 15, 30>>, <<20, 20, 60>>, <<30, 20, 50>>>>
  @@ K_medical_clinic :> <<<<40, 25, 35>>, <<25, 30, 45>>, <<35, 25, 40>>>>
  @@ K_educational_institute :> <<<<45, 20, 35>>, <<20, 25, 55>>, <<35, 20, 45>>>>
  @@ K_restaurant :> <<<<20, 50, 30>>, <<50, 30, 20>>, <<50, 30, 20>>>>
  @@ K_cafe :> <<<<20, 35, 45>>, <<50, 30, 20>>, <<50, 30, 20>>>>
  @@ K_retail_store :> <<<<25, 45, 30>>, <<45, 35, 20>>, <<50, 30, 20>>>>
  @@ K_supermarket :> <<<<20, 40, 40>>, <<40, 35, 25>>, <<50, 30, 20>>>>
  @@ K_salon_beauty :> <<<<25, 45, 30>>, <<45, 35, 20>>, <<50, 30, 20>>>>
  @@ K_hotel_hospitality :> <<<<65, 25, 10>>, <<15, 25, 60>>, <<35, 25, 40>>>>
  @@ K_souvenir_gift_shop :> <<<<50, 40, 10>>, <<30, 30, 40>>, <<45, 30, 25>>>>
  @@ K_pharmacy :> <<<<25, 30, 45>>, <<35, 35, 30>>, <<45, 30, 25>>>>
  @@ K_gym_fitness_centre :> <<<<45, 20, 35>>, <<35, 35, 30>>, <<45, 30, 25>>>>

DefaultProfileTable == <<<<30, 35, 35>>, <<40, 35, 25>>, <<50, 30, 20>>>>

ProfileFloats(p) ==
  <<<<Lit2(p[1][1]), Lit2(p[1][2]), Lit2(p[1][3])>>,
    <<Lit2(p[2][1]), Lit2(p[2][2]), Lit2(p[2][3])>>,
    <<Lit2(p[3][1]), Lit2(p[3][2]), Lit2(p[3][3])>>>>

PROFILES == [k \in DOMAIN ProfileTable |-> ProfileFloats(ProfileTable[k])]

DEFAULT_PROFILE == ProfileFloats(DefaultProfileTable)

get_profile(business_type) ==
  DictGet(PROFILES, Strip(Lower(business_type)), DEFAULT_PROFILE)

\* ------------------------------------------------------------------------
\* scoring_engine.py: the static dataset.  Index values are kept in
\* hundredths (85 is 8500); latitude and longitude are carried through by
\* the program without being read and are left out.
\* ------------------------------------------------------------------------

INDEX_FIELDS == <<"income_index", "foot_traffic_proxy",
                  "population_density_index", "competition_index",
                  "commercial_rent_index", "accessibility_penalty",
                  "area_growth_trend", "vacancy_rate_improvement",
                  "infrastructure_investment_index">>

Area(n, v) ==
  [name |-> n,
   income_index |-> 100 * v[1], foot_traffic_proxy |-> 100 * v[2],
   population_density_index |-> 100 * v[3],
   competition_index |-> 100 * v[4], commercial_rent_index |-> 100 * v[5],
   accessibility_penalty |-> 100 * v[6],
   area_growth_trend |-> 100 * v[7], vacancy_rate_improvement |-> 100 * v[8],
   infrastructure_investment_index |-> 100 * v[9]]

KOLKATA_AREAS == <<
  Area("Park Street", <<85, 88, 65, 90, 82, 15, 45, 35, 65>>),
  Area("New Town", <<72, 70, 55, 40, 55, 17, 78, 62, 87>>),
  Area("Salt Lake Sector V", <<78, 85, 60, 60, 72, 20, 65, 50, 82>>),
  Area("Behala", <<52, 62, 88, 36, 28, 55, 40, 45, 35>>),
  Area("Ballygunge", <<82, 70, 55, 62, 78, 20, 50, 40, 60>>),
  Area("Shyambazar", <<60, 80, 80, 68, 45, 30, 55, 50, 55>>),
  Area("Esplanade", <<75, 92, 75, 88, 72, 10, 55, 35, 72>>),
  Area("Gariahat", <<70, 82, 68, 78, 62, 22, 50, 40, 58>>),
  Area("Rajarhat", <<65, 50, 40, 33, 38, 35, 85, 70, 88>>),
  Area("Jadavpur", <<62, 76, 75, 55, 50, 28, 58, 52, 55>>),
  Area("Alipore", <<92, 42, 35, 28, 88, 25, 35, 30, 55>>),
  Area("Tollygunge", <<60, 65, 78, 52, 46, 28, 50, 48, 52>>),
  Area("Dum Dum", <<52, 62, 85, 38, 30, 20, 60, 55, 68>>),
  Area("Kasba", <<65, 70, 70, 48, 55, 28, 52, 45, 50>>),
  Area("Howrah", <<48, 74, 90, 78, 26, 10, 60, 50, 68>>)
>>

\* ------------------------------------------------------------------------
\* scoring_engine.py: the scoring formula
\* ------------------------------------------------------------------------

\* the float held by an index field whose value is h hundredths
IndexFloat(h) == FFromDec(h, 100)

WeightedSum(w, a, b, c) ==
  FAdd(FAdd(FMul(w[1], a), FMul(w[2], b)), FMul(w[3], c))

\* the float literals of the module
F1      == FFromInt(1)
F100    == FFromInt(100)
F300000 == FFromInt(300000)
F1_5    == FFromDec(15, 10)
F0_40   == Lit2(40)
F0_35   == Lit2(35)
F0_25   == Lit2(25)
F0_65   == Lit2(65)
F0_45   == Lit2(45)
F0_60   == Lit2(60)

\* the clustering benefit added to the competition instead of discounted
adjusted_competition_raised(comp, clustering_benefit_factor) ==
  FMul(comp, FAdd(F1, clustering_benefit_factor))

adjusted_competition(comp, clustering_benefit_factor) ==
  FMul(comp, FSub(F1, clustering_benefit_factor))

\* friction counted as a gain instead of a cost
location_score_friction_added(demand_score, friction_score, growth_score) ==
  FAdd(FAdd(FMul(F0_40, demand_score), FMul(F0_35, friction_score)),
       FMul(F0_25, growth_score))

location_score(demand_score, friction_score, growth_score) ==
  FAdd(FSub(FMul(F0_40, demand_score), FMul(F0_35, friction_score)),
       FMul(F0_25, growth_score))

\* area[field] / 100.0 for a field holding h hundredths
Normalised(h) == FDivSmall(IndexFloat(h), 100)

\* the returned dict: score in tenths, the three sub-scores in
\* ten-thousandths
score_breakdown(demand_score, friction_score, growth_score) ==
  [score          |-> PyRound(FMul(location_score(demand_score, friction_score,
                                                  growth_score), F100), 10),
   demand_score   |-> PyRound(demand_score, 10000),
   friction_score |-> PyRound(friction_score, 10000),
   growth_score   |-> PyRound(growth_score, 10000)]

calculate_score(area, clustering_benefit_factor, profile) ==
  score_breakdown(
    WeightedSum(profile[1], Normalised(area.income_index),
                Normalised(area.foot_traffic_proxy),
                Normalised(area.population_density_index)),
    WeightedSum(profile[2],
                adjusted_competition(Normalised(area.competition_index),
                                     clustering_benefit_factor),
                Normalised(area.commercial_rent_index),
                Normalised(area.accessibility_penalty)),
    WeightedSum(profile[3], Normalised(area.area_growth_trend),
                Normalised(area.vacancy_rate_improvement),
                Normalised(area.infrastructure_investment_index)))

\* ------------------------------------------------------------------------
\* scoring_engine.py: the reasoning generator.  A bullet is the f-string's
\* fixed text, named by its kind and variant, with the values it embeds.
\* ------------------------------------------------------------------------

threshold_label(value, low, high) ==
  IF value >= 100 * high THEN "High"
  ELSE IF value >= 100 * low THEN "Moderate"
  ELSE "Low"

LabelLower(lbl) ==
  IF lbl = "High" THEN "high" ELSE IF lbl = "Moderate" THEN "moderate" ELSE "low"

\* round(score * 100, 1) of a sub-score given in ten-thousandths, in tenths
Percent1(score) == PyRound(FMul(FFromDec(score, 10000), F100), 10)

\* the upper band taken with >= instead of >
demand_qualifier_inclusive(demand) ==
  IF FGe(demand, F0_65) THEN "strong"
  ELSE IF FGt(demand, F0_45) THEN "moderate"
  ELSE "limited"

demand_qualifier(demand) ==
  IF FGt(demand, F0_65) THEN "strong"
  ELSE IF FGt(demand, F0_45) THEN "moderate"
  ELSE "limited"

growth_qualifier(growth) ==
  IF FGt(growth, F0_60) THEN "rapidly evolving"
  ELSE IF FGt(growth, F0_40) THEN "steadily developing"
  ELSE "relatively mature"

demand_sentence(area, business_type, demand_score) ==
  [kind |-> "demand",
   income_lbl |-> threshold_label(area.income_index, 55, 75),
   income_index |-> area.income_index,
   traffic_lbl |-> LabelLower(threshold_label(area.foot_traffic_proxy, 55, 75)),
   foot_traffic_proxy |-> area.foot_traffic_proxy,
   demand_pct |-> Percent1(demand_score),
   qualifier |-> demand_qualifier(FFromDec(demand_score, 10000)),
   business_type |-> business_type]

\* the bands taken with > instead of >=
competition_sentence_strict(area, business_type, friction_pct, rent_lbl, acc_lbl) ==
  IF area.competition_index > 7000
  THEN [kind |-> "competition", variant |-> "High market saturation",
        competition_index |-> area.competition_index,
        friction_pct |-> friction_pct,
        acc_lbl |-> LabelLower(acc_lbl), rent_lbl |-> LabelLower(rent_lbl)]
  ELSE IF area.competition_index > 4500
  THEN [kind |-> "competition", variant |-> "Moderate competition",
        competition_index |-> area.competition_index,
        rent_lbl |-> LabelLower(rent_lbl),
        friction_pct |-> friction_pct,
        business_type |-> business_type]
  ELSE [kind |-> "competition", variant |-> "Low competition",
        competition_index |-> area.competition_index,
        rent_lbl |-> LabelLower(rent_lbl),
        friction_pct |-> friction_pct]

competition_sentence(area, business_type, friction_pct, rent_lbl, acc_lbl) ==
  IF area.competition_index >= 7000
  THEN [kind |-> "competition", variant |-> "High market saturation",
        competition_index |-> area.competition_index,
        friction_pct |-> friction_pct,
        acc_lbl |-> LabelLower(acc_lbl), rent_lbl |-> LabelLower(rent_lbl)]
  ELSE IF area.competition_index >= 4500
  THEN [kind |-> "competition", variant |-> "Moderate competition",
        competition_index |-> area.competition_index,
        rent_lbl |-> LabelLower(rent_lbl),
        friction_pct |-> friction_pct,
        business_type |-> business_type]
  ELSE [kind |-> "competition", variant |-> "Low competition",
        competition_index |-> area.competition_index,
        rent_lbl |-> LabelLower(rent_lbl),
        friction_pct |-> friction_pct]

growth_sentence(area, growth_score) ==
  [kind |-> "growth",
   growth_lbl |-> threshold_label(area.area_growth_trend, 45, 65),
   area_growth_trend |-> area.area_growth_trend,
   infrastructure_investment_index |-> area.infrastructure_investment_index,
   growth_pct |-> Percent1(growth_score),
   qualifier |-> growth_qualifier(FFromDec(growth_score, 10000))]

generate_reasoning(area, business_type, demand_score, friction_score, growth_score) ==
  <<demand_sentence(area, business_type, demand_score),
    competition_sentence(area, business_type, Percent1(friction_score),
                         threshold_label(area.commercial_rent_index, 40, 65),
                         threshold_label(area.accessibility_penalty, 30, 55)),
    growth_sentence(area, growth_score)>>

\* ------------------------------------------------------------------------
\* scoring_engine.py: the ranking pipeline
\* ------------------------------------------------------------------------

\* (area["commercial_rent_index"] / 100) * 300_000
estimated_rent(area) == FMul(Normalised(area.commercial_rent_index), F300000)

\* the budget test of rank_areas: the zone is skipped when this is FALSE
affordable(area, budget_range) ==
  ~FGt(estimated_rent(area), FMul(FFromInt(budget_range), F1_5))

\* the dict appended for a zone: the area, its scores and its reasoning
scored_area(area, business_type, cbf, s) ==
  area @@ [score |-> s.score,
           demand_score |-> s.demand_score,
           friction_score |-> s.friction_score,
           growth_score |-> s.growth_score,
           clustering_benefit_factor |-> cbf,
           reasoning |-> generate_reasoning(area, business_type,
                           s.demand_score, s.friction_score, s.growth_score)]

score_area(area, business_type, cbf, profile) ==
  scored_area(area, business_type, cbf, calculate_score(area, cbf, profile))

score_each(passers, business_type, cbf, profile) ==
  [i \in 1..Len(passers) |->
     score_area(passers[i], business_type, cbf, profile)]

\* the loop without the budget test
score_all_unfiltered(areas, business_type, budget_range, cbf, profile) ==
  score_each(areas, business_type, cbf, profile)

\* the loop of rank_areas: the zones that pass the budget test, in the order
\* of the input, each with its scores and reasoning
score_all(areas, business_type, budget_range, cbf, profile) ==
  score_each(SelectSeq(areas, LAMBDA a : affordable(a, budget_range)),
             business_type, cbf, profile)

\* a sort that puts the later of two equal scores first
sort_position_unstable(scored, i) ==
  Cardinality({j \in 1..Len(scored) : scored[j].score > scored[i].score})
  + Cardinality({j \in (i + 1)..Len(scored) : scored[j].score = scored[i].score})
  + 1

\* list.sort(key=score, reverse=True) is a stable sort: the element at
\* index i lands after every element with a larger score and after the
\* elements with an equal score that precede it in the list
sort_position(scored, i) ==
  Cardinality({j \in 1..Len(scored) : scored[j].score > scored[i].score})
  + Cardinality({j \in 1..(i - 1) : scored[j].score = scored[i].score})
  + 1

sort_by_score(scored) ==
  [k \in 1..Len(scored) |->
     scored[CHOOSE i \in 1..Len(scored) : sort_position(scored, i) = k]]

\* the slice taken from the end of the sorted list
top5_last(scored) ==
  SubSeq(scored, IF Len(scored) < 5 THEN 1 ELSE Len(scored) - 4, Len(scored))

top5(scored) == SubSeq(scored, 1, IF Len(scored) < 5 THEN Len(scored) ELSE 5)

\* the rank left 0-based
rank_of_index(idx) == idx

rank_of(idx) == idx + 1

\* for idx, item in enumerate(top5): item["rank"] = idx + 1
with_ranks(top) == [i \in 1..Len(top) |-> top[i] @@ [rank |-> rank_of(i - 1)]]

\* a ranking in which demographic tags switch the clustering benefit off
rank_areas_tagged(business_type, target_demographic, budget_range, areas) ==
  with_ranks(top5(sort_by_score(
    score_all(areas, business_type, budget_range,
              IF target_demographic = << >>
                THEN clustering_benefit(business_type) ELSE FZero,
              get_profile(business_type)))))

rank_areas(business_type, target_demographic, budget_range, areas) ==
  with_ranks(top5(sort_by_score(
    score_all(areas, business_type, budget_range,
              clustering_benefit(business_type), get_profile(business_type)))))

\* ------------------------------------------------------------------------
\* database.py, seed.py, main.py: the zone store and its handlers
\* ------------------------------------------------------------------------

VARIABLES
  rows,       \* the area_indices table, in insertion order
  now,        \* the wall clock, read by datetime.now
  started,    \* the startup event has run
  sess,       \* per worker: the update-indices request it is serving
  read_rows,  \* the rows the last SELECT of a reader returned
  analysis,   \* the last analyze request and its response
  scoring,    \* the last single-zone scoring and its result
  run_info,   \* what get_last_pipeline_run returned last
  last_run    \* history: the latest committed call with a non-empty summary

vars == <<rows, now, started, sess, read_rows, analysis, scoring, run_info,
          last_run>>

\* concurrent workers serving update-indices requests
NSessions == 2
\* the clock value at which no further request is accepted
MaxTime == 3

Sessions == 1..NSessions

FieldSet == {INDEX_FIELDS[i] : i \in 1..Len(INDEX_FIELDS)}

\* a row as seed inserts it: the column defaults give the timestamp of the
\* insert and an empty summary
NewRow(area, ts) ==
  area @@ [last_updated |-> ts, last_news_summary |-> ""]

HasRow(table, name) == \E i \in 1..Len(table) : table[i].name = name

\* the first row of the table, whatever the name
RowOf_first(table, name) == 1

\* the row index of a name (the primary key)
RowOf(table, name) == CHOOSE i \in 1..Len(table) : table[i].name = name

\* an upsert: the missing areas inserted and the index fields of the rows
\* that exist set back to the static values
seed_upsert(table, ts) ==
  [i \in 1..Len(table) |->
     IF \E j \in 1..Len(KOLKATA_AREAS) : KOLKATA_AREAS[j].name = table[i].name
       THEN [k \in DOMAIN table[i] |->
               IF k \in FieldSet
                 THEN KOLKATA_AREAS[CHOOSE j \in 1..Len(KOLKATA_AREAS) :
                        KOLKATA_AREAS[j].name = table[i].name][k]
                 ELSE table[i][k]]
       ELSE table[i]]
  \o SelectSeq([i \in 1..Len(KOLKATA_AREAS) |-> NewRow(KOLKATA_AREAS[i], ts)],
               LAMBDA r : ~HasRow(table, r.name))

\* seed(): every static area whose name has no row is inserted
seed(table, ts) ==
  table \o SelectSeq([i \in 1..Len(KOLKATA_AREAS) |-> NewRow(KOLKATA_AREAS[i], ts)],
                     LAMBDA r : ~HasRow(table, r.name))

\* get_areas(): one dict per row with the name and the nine index fields
AreaDict(r) == [k \in {"name"} \cup FieldSet |-> r[k]]

get_areas(table) == [i \in 1..Len(table) |-> AreaDict(table[i])]

\* f"{field}_delta"
DeltaKey(field) == <<field, "_delta">>

\* a JSON number with three decimals, given in thousandths
FDec3(d) == IF d = 0 THEN FZero ELSE FFromDec(d, 1000)

\* the lower bound alone: max(0.0, x)
clamp_floor_only(x) == IF FGt(x, FZero) THEN x ELSE FZero

\* Python min(a, b) and max(a, b) of two floats: the first argument unless
\* the second is strictly smaller (larger)
fmin(a, b) == IF FLt(b, a) THEN b ELSE a
fmax(a, b) == IF FGt(b, a) THEN b ELSE a

\* max(0.0, min(100.0, x))
clamp(x) == fmax(FZero, fmin(F100, x))

\* the value apply_delta assigns to a field (hundredths): current + delta,
\* clamped, rounded to two decimals
new_value(current, delta) ==
  PyRound(clamp(FAdd(IndexFloat(current), FDec3(delta))), 100)

\* the provenance assigned only when some delta is not zero
apply_fields_if_changed(row, deltas, source_summary, ts) ==
  [k \in DOMAIN row |->
     IF k \in FieldSet
       THEN IF DictGet(deltas, DeltaKey(k), 0) = 0 THEN row[k]
            ELSE new_value(row[k], DictGet(deltas, DeltaKey(k), 0))
     ELSE IF k = "last_updated" /\ \E f \in FieldSet : deltas[DeltaKey(f)] # 0
       THEN ts
     ELSE IF k = "last_news_summary" /\ \E f \in FieldSet : deltas[DeltaKey(f)] # 0
       THEN source_summary
     ELSE row[k]]

\* the loop of apply_delta over _INDEX_FIELDS followed by the two
\* provenance assignments: the row object as it stands before the commit
apply_fields(row, deltas, source_summary, ts) ==
  [k \in DOMAIN row |->
     IF k \in FieldSet
       THEN LET delta == DictGet(deltas, DeltaKey(k), 0)
            IN  IF delta = 0 THEN row[k] ELSE new_value(row[k], delta)
     ELSE IF k = "last_updated" THEN ts
     ELSE IF k = "last_news_summary" THEN source_summary
     ELSE row[k]]

\* the columns the unit of work writes at commit: those whose attribute
\* differs from the value loaded
dirty(loaded, row) == {k \in DOMAIN row : row[k] # loaded[k]}

\* the index columns written, the provenance columns left for later
commit_row_indices_only(stored, loaded, row) ==
  [k \in DOMAIN stored |->
     IF k \in dirty(loaded, row) \cap FieldSet THEN row[k] ELSE stored[k]]

\* UPDATE area_indices SET <dirty columns> WHERE name = :name; COMMIT
commit_row(stored, loaded, row) ==
  [k \in DOMAIN stored |-> IF k \in dirty(loaded, row) THEN row[k] ELSE stored[k]]

\* the UPDATE without its WHERE clause: the dirty columns written to every
\* row of the table
commit_table_no_where(table, name, loaded, row) ==
  [j \in 1..Len(table) |-> commit_row(table[j], loaded, row)]

\* the table after the commit: the row with the primary key of the loaded
\* object is the one written
commit_table(table, name, loaded, row) ==
  [table EXCEPT ![RowOf(table, name)] = commit_row(@, loaded, row)]

\* history: the calls worker w's call has run beside so far, once worker v
\* commits while w's is in progress
beside(overlap, same_zone) ==
  IF same_zone \/ overlap = "same zone" THEN "same zone" ELSE "other zone"

\* os.getenv("PIPELINE_SECRET", ""), as configured in the deployment
PIPELINE_SECRET == "s3cret"

\* a request without the header let through
forbidden_if_present(x_pipeline_secret) ==
  x_pipeline_secret # "None" /\ x_pipeline_secret # PIPELINE_SECRET

\* x_pipeline_secret != expected; an absent header is None, which is not
\* equal to any string
forbidden(x_pipeline_secret) == x_pipeline_secret # PIPELINE_SECRET

\* request bodies without the area name: the deltas given (thousandths; the
\* others default to 0.0; rainfall_index_delta is a key the schema does not
\* have) and the source summary
Payloads ==
  { [given |-> [income_index |-> 5250, commercial_rent_index |-> -120000,
                competition_index |-> 100000],
     source_summary |-> "metro line opened"],
    [given |-> [commercial_rent_index |-> 1005,
                infrastructure_investment_index |-> -4,
                area_growth_trend |-> 0,
                rainfall_index |-> 7000],
     source_summary |-> ""],
    [given |-> << >>,
     source_summary |-> "nothing new"] }

Request(header, area_name, payload) ==
  [header |-> header, area_name |-> area_name, payload |-> payload]

\* the update-indices requests received: under the right X-Pipeline-Secret
\* every payload for one seeded zone, one for a second zone and one for a
\* name no row has; and a request with a wrong and with an absent (None)
\* header
Requests ==
  {Request(PIPELINE_SECRET, "Park Street", p) : p \in Payloads}
  \cup {Request(PIPELINE_SECRET, "Behala", p) :
          p \in {q \in Payloads : q.source_summary = ""}}
  \cup {Request(PIPELINE_SECRET, "Atlantis", p) :
          p \in {q \in Payloads : q.source_summary = ""}}
  \cup {Request("guess", "Park Street", p) :
          p \in {q \in Payloads : q.source_summary = "metro line opened"}}
  \cup {Request("None", "Behala", p) :
          p \in {q \in Payloads : q.source_summary = "nothing new"}}

\* the dict update_indices builds from the request body
delta_dict(given) ==
  [k \in {DeltaKey(f) : f \in FieldSet} |->
     IF k[1] \in DOMAIN given THEN given[k[1]] ELSE 0]

\* apply_delta finds no row and returns True all the same
row_missing_ignored(req, deltas) ==
  [req EXCEPT !.pc = "done", !.deltas = deltas, !.status = 200,
              !.result = "true"]

\* apply_delta finds no row: it returns False and update_indices answers 404
row_missing(req, deltas) ==
  [req EXCEPT !.pc = "done", !.deltas = deltas, !.status = 404,
              !.result = "false"]

IdleSession ==
  [pc |-> "idle", header |-> "None", area_name |-> "", given |-> << >>,
   deltas |-> << >>, source_summary |-> "", loaded |-> << >>, row |-> << >>,
   called_at |-> -1, overlap |-> "none", status |-> 0, result |-> "none"]

NoAnalysis == [status |-> 0]

NoScoring == [done |-> FALSE]

\* None, as get_last_pipeline_run returns it
NoRun == [found |-> FALSE]

\* datetime.isoformat()
isoformat(ts) == <<"isoformat", ts>>

\* the rows the query of get_last_pipeline_run filters in
with_summary(table) == {i \in 1..Len(table) : table[i].last_news_summary # ""}

\* ORDER BY last_updated DESC ... first()
latest_row(table, S) ==
  table[CHOOSE i \in S : \A j \in S : table[j].last_updated <= table[i].last_updated]

run_dict(row) ==
  [found |-> TRUE, last_updated |-> isoformat(row.last_updated),
   area |-> row.name, summary |-> row.last_news_summary]

get_last_pipeline_run(table) ==
  IF with_summary(table) = {} THEN NoRun
  ELSE run_dict(latest_row(table, with_summary(table)))

\* history: the later of the run recorded so far and the call a worker
\* commits, by call time; a call with an empty summary is not a run
later_run(recorded, s) ==
  IF s.source_summary = "" THEN recorded
  ELSE IF recorded.found /\ recorded.last_updated[2] > s.called_at
    THEN recorded
  ELSE [found |-> TRUE, last_updated |-> isoformat(s.called_at),
        area |-> s.area_name, summary |-> s.source_summary]

Init ==
  /\ rows = << >>
  /\ now = 0
  /\ started = FALSE
  /\ sess = [w \in Sessions |-> IdleSession]
  /\ read_rows = << >>
  /\ analysis = NoAnalysis
  /\ scoring = NoScoring
  /\ run_info = NoRun
  /\ last_run = NoRun

\* startup_event: init_db, then seed if get_areas returns nothing
Startup ==
  /\ ~started
  /\ started' = TRUE
  /\ read_rows' = rows
  /\ IF get_areas(read_rows') = << >>
       THEN rows' = seed(rows, now) /\ now' = now + 1
       ELSE UNCHANGED <<rows, now>>
  /\ UNCHANGED <<sess, analysis, scoring, run_info, last_run>>

\* python -m app.seed
SeedRun ==
  /\ rows' = seed(rows, now)
  /\ now' = IF rows' # rows THEN now + 1 ELSE now
  /\ UNCHANGED <<started, sess, read_rows, analysis, scoring, run_info, last_run>>

\* update_indices up to the point where apply_delta has assigned the row's
\* attributes and is about to commit; a request that is refused (403) or
\* names no row (404) ends here.  The workers are interchangeable: a
\* request goes to the first one that is not in the middle of a call.
UpdateIndices(w, header, area_name, payload) ==
  /\ started
  /\ sess[w].pc # "loaded"
  /\ \A v \in 1..(w - 1) : sess[v].pc = "loaded"
  /\ now < MaxTime
  /\ now' = now + 1
  /\ LET deltas == delta_dict(payload.given)
         req == [IdleSession EXCEPT !.header = header, !.area_name = area_name,
                                    !.given = payload.given,
                                    !.called_at = now,
                                    !.source_summary = payload.source_summary]
     IN  sess' = [sess EXCEPT ![w] =
           IF forbidden(header)
             THEN [req EXCEPT !.pc = "done", !.status = 403]
           ELSE IF ~HasRow(rows, area_name)
             THEN row_missing(req, deltas)
           ELSE LET loaded == rows[RowOf(rows, area_name)]
                IN  [req EXCEPT !.pc = "loaded", !.deltas = deltas,
                                !.loaded = <<loaded>>,
                                !.row = <<apply_fields(loaded, deltas,
                                           payload.source_summary, now)>>]]
  /\ UNCHANGED <<rows, started, read_rows, analysis, scoring, run_info, last_run>>

\* db.commit() succeeds: the dirty columns of the row are written in one
\* transaction, apply_delta returns True and the request is answered 200
Commit(w) ==
  /\ sess[w].pc = "loaded"
  /\ rows' = commit_table(rows, sess[w].area_name, sess[w].loaded[1],
                          sess[w].row[1])
  /\ sess' = [v \in Sessions |->
               IF v = w
                 THEN [sess[v] EXCEPT !.pc = "done", !.status = 200,
                                      !.result = "true"]
               ELSE IF sess[v].pc = "loaded"
                 THEN [sess[v] EXCEPT !.overlap =
                         beside(@, sess[v].area_name = sess[w].area_name)]
               ELSE sess[v]]
  /\ last_run' = later_run(last_run, sess[w])
  /\ UNCHANGED <<now, started, read_rows, analysis, scoring, run_info>>

\* db.commit() raises: db.rollback(), the exception propagates and the
\* request is answered 500
CommitFail(w) ==
  /\ sess[w].pc = "loaded"
  /\ sess' = [sess EXCEPT ![w].pc = "done", ![w].status = 500,
                          ![w].result = "raised"]
  /\ UNCHANGED <<rows, now, started, read_rows, analysis, scoring, run_info, last_run>>

\* a reader calls get_areas: one SELECT over the table, from whose rows the
\* list get_areas(read_rows) is built
GetAreas ==
  /\ started
  /\ read_rows' = rows
  /\ UNCHANGED <<rows, now, started, sess, analysis, scoring, run_info, last_run>>

\* pipeline_last_run: the result of get_last_pipeline_run
PipelineLastRun ==
  /\ started
  /\ run_info' = get_last_pipeline_run(rows)
  /\ UNCHANGED <<rows, now, started, sess, read_rows, analysis, scoring,
                 last_run>>

Next ==
  \/ Startup
  \/ SeedRun
  \/ \E w \in Sessions, r \in Requests :
        UpdateIndices(w, r.header, r.area_name, r.payload)
  \/ \E w \in Sessions : Commit(w)
  \/ \E w \in Sessions : CommitFail(w)
  \/ GetAreas
  \/ PipelineLastRun

Spec == Init /\ [][Next]_vars

\* ------------------------------------------------------------------------
\* main.py: the analyze endpoint over the store
\* ------------------------------------------------------------------------

\* the static dataset whatever the store returns
active_areas_static(db_areas) == KOLKATA_AREAS

\* db_areas if db_areas else KOLKATA_AREAS
active_areas(db_areas) == IF db_areas # << >> THEN db_areas ELSE KOLKATA_AREAS

\* an empty ranking answered as a success
analyze_response_empty_ok(request, areas, results) ==
  [status |-> 200, request |-> request, areas |-> areas, results |-> results,
   business_type |-> request.business_type,
   total_areas_analyzed |-> Len(areas)]

\* what analyze answers: 404 when rank_areas returned nothing, otherwise the
\* AnalyzeResponse; the request, the areas ranked and the list returned by
\* rank_areas are kept with it
analyze_response(request, areas, results) ==
  IF results = << >>
    THEN [status |-> 404, request |-> request, areas |-> areas,
          results |-> results]
    ELSE [status |-> 200, request |-> request, areas |-> areas,
          results |-> results,
          business_type |-> request.business_type,
          total_areas_analyzed |-> Len(areas)]

analyze_areas(request, areas) ==
  analyze_response(request, areas,
                   rank_areas(request.business_type, request.target_demographic,
                              request.budget_range, areas))

AnalyzeRequest(business_type, target_demographic, budget_range) ==
  [business_type |-> business_type, target_demographic |-> target_demographic,
   budget_range |-> budget_range]

T_Restaurant == <<"R", "e", "s", "t", "a", "u", "r", "a", "n", "t">>

\* analyze requests: budgets within the schema's 50000..500000 under which
\* no, one, three and seven of the static zones pass the budget test, and the
\* same request with and without demographic tags
AnalyzeRequests ==
  {AnalyzeRequest(t, << >>, b) :
     t \in {T_Restaurant, K_souvenir_gift_shop},
     b \in {50000, 56000, 60000, 100000}}
  \cup {AnalyzeRequest(T_Restaurant, <<"Students", "Families">>, b) :
          b \in {50000, 100000}}
  \cup {AnalyzeRequest(<<" ", "C", "A", "F", "E", " ">>, <<"Students">>, 500000)}

\* analyze: one SELECT through get_areas, the fallback to the static
\* dataset, rank_areas and the response
Analyze(request) ==
  /\ started
  /\ analysis.status = 0
  /\ read_rows' = rows
  /\ analysis' = analyze_areas(request, active_areas(get_areas(rows)))
  /\ UNCHANGED <<rows, now, started, sess, scoring, run_info, last_run>>

\* the update-indices requests of the ranking runs
RankUpdates ==
  {r \in Requests :
     /\ r.header = PIPELINE_SECRET
     /\ \/ r.area_name = "Behala"
        \/ r.area_name = "Park Street"
           /\ r.payload.source_summary = "metro line opened"}

\* the server is up and has room for one more update-indices call; the
\* table is as seeded, or was emptied from outside after the startup
InitRank ==
  /\ rows \in {seed(<< >>, 0), << >>}
  /\ now = MaxTime - 1
  /\ started = TRUE
  /\ sess = [w \in Sessions |-> IdleSession]
  /\ read_rows = rows
  /\ analysis = NoAnalysis
  /\ scoring = NoScoring
  /\ run_info = NoRun
  /\ last_run = NoRun

NextRank ==
  \/ \E w \in Sessions, r \in RankUpdates :
        UpdateIndices(w, r.header, r.area_name, r.payload)
  \/ \E w \in Sessions : Commit(w)
  \/ \E w \in Sessions : CommitFail(w)
  \/ \E request \in AnalyzeRequests : Analyze(request)

SpecRank == InitRank /\ [][NextRank]_vars

\* ------------------------------------------------------------------------
\* main.py, seed.py: the store over the life of the deployment.  The startup
\* event runs on every server start, so the server is also stopped; seed
\* runs as a script at any time.
\* ------------------------------------------------------------------------

\* the server process stops once the requests in progress are answered; the
\* table stays in the database
Shutdown ==
  /\ started
  /\ \A w \in Sessions : sess[w].pc # "loaded"
  /\ started' = FALSE
  /\ UNCHANGED <<rows, now, sess, read_rows, analysis, scoring, run_info,
                 last_run>>

NextLife ==
  \/ Startup
  \/ SeedRun
  \/ Shutdown
  \/ \E w \in Sessions, r \in RankUpdates :
        UpdateIndices(w, r.header, r.area_name, r.payload)
  \/ \E w \in Sessions : Commit(w)
  \/ \E w \in Sessions : CommitFail(w)

SpecLife == Init /\ [][NextLife]_vars

\* ------------------------------------------------------------------------
\* scoring_engine.py: one zone through rank_areas.  The business type is
\* resolved, the zone is filtered, scored and given its reasoning.
\* ------------------------------------------------------------------------

\* a zone record from index values in hundredths
Zone(n, h) ==
  [name |-> n,
   income_index |-> h[1], foot_traffic_proxy |-> h[2],
   population_density_index |-> h[3],
   competition_index |-> h[4], commercial_rent_index |-> h[5],
   accessibility_penalty |-> h[6],
   area_growth_trend |-> h[7], vacancy_rate_improvement |-> h[8],
   infrastructure_investment_index |-> h[9]]

\* zones scored: the static dataset and rows as apply_delta can leave them,
\* with fields at 0, at 100 and at two-decimal values
ScoreZones ==
  {KOLKATA_AREAS[i] : i \in 1..Len(KOLKATA_AREAS)}
  \cup { Zone("Park Street", <<0, 0, 0, 0, 0, 0, 0, 0, 0>>),
         Zone("Park Street", <<10000, 10000, 10000, 10000, 10000, 10000,
                               10000, 10000, 10000>>),
         Zone("New Town", <<10000, 10000, 10000, 0, 0, 0, 10000, 10000, 10000>>),
         Zone("New Town", <<0, 0, 0, 10000, 10000, 10000, 0, 0, 0>>),
         Zone("Behala", <<9025, 8800, 6500, 10000, 101, 1500, 4500, 3500, 6499>>),
         Zone("Behala", <<5507, 4999, 7001, 6999, 3400, 4500, 7500, 6001, 3999>>),
         Zone("Kasba", <<6500, 7000, 7000, 7000, 5500, 2800, 5200, 4500, 5000>>),
         Zone("Kasba", <<6500, 7000, 7000, 4500, 5500, 2800, 5200, 4500, 5000>>),
         Zone("Kasba", <<6500, 7000, 7000, 4499, 5500, 2800, 5200, 4500, 5000>>),
         Zone("Howrah", <<6500, 6500, 6500, 5000, 3000, 2000, 6000, 6000, 6000>>),
         Zone("Howrah", <<6501, 6501, 6501, 5000, 3000, 2000, 6001, 6001, 6001>>),
         Zone("Howrah", <<4500, 4500, 4500, 5000, 3000, 2000, 4000, 4000, 4000>>),
         Zone("Howrah", <<4501, 4501, 4501, 5000, 3000, 2000, 4001, 4001, 4001>>),
         Zone("Dum Dum", <<5500, 6200, 8500, 3800, 3000, 2000, 6000, 5500, 6800>>),
         Zone("Dum Dum", <<5499, 6200, 8500, 3800, 3000, 2000, 6000, 5500, 6800>>),
         Zone("Dum Dum", <<7499, 6200, 8500, 3800, 3000, 2000, 6000, 5500, 6800>>) }

\* business types as received
ScoreTypes ==
  { K_tech_office, K_medical_clinic, K_educational_institute, K_restaurant,
    K_cafe, K_retail_store, K_supermarket, K_salon_beauty,
    K_hotel_hospitality, K_souvenir_gift_shop, K_pharmacy,
    K_gym_fitness_centre,
    T_Restaurant,
    <<" ", "C", "A", "F", "E", " ">>,
    <<"P", "h", "a", "r", "m", "a", "c", "y", "\t">>,
    <<"b", "a", "k", "e", "r", "y">>,
    <<" ", " ", "T", "e", "c", "h", " ", "O", "f", "f", "i", "c", "e", "\n">>,
    << >> }

\* a budget under which every zone passes the filter, and budgets at and
\* around the boundaries budget * 1.5 = estimated rent of some zone
ScoreBudgets == {50000, 52000, 55999, 56000, 56001, 110000, 200000}

ScoreInputs ==
  {[area |-> a, business_type |-> t, budget_range |-> 500000] :
     a \in ScoreZones, t \in ScoreTypes}
  \cup {[area |-> a, business_type |-> K_restaurant, budget_range |-> b] :
          a \in ScoreZones, b \in ScoreBudgets}

InitScore ==
  /\ rows = <<>>
  /\ now = 0
  /\ started = FALSE
  /\ sess = [w \in Sessions |-> IdleSession]
  /\ read_rows = <<>>
  /\ analysis = NoAnalysis
  /\ scoring \in {[done |-> FALSE, input |-> x] : x \in ScoreInputs}
  /\ run_info = NoRun
  /\ last_run = NoRun

\* one pass of the loop of rank_areas over a single zone
ScoreResult(x, cbf, profile) ==
  [done |-> TRUE, input |-> x,
   clustering_benefit_factor |-> cbf, profile |-> profile,
   scored |-> score_all(<<x.area>>, x.business_type, x.budget_range,
                        cbf, profile)]

Score ==
  /\ ~scoring.done
  /\ scoring' = ScoreResult(scoring.input,
                            clustering_benefit(scoring.input.business_type),
                            get_profile(scoring.input.business_type))
  /\ UNCHANGED <<rows, now, started, sess, read_rows, analysis, run_info, last_run>>

NextScore == Score

SpecScore == InitScore /\ [][NextScore]_vars

\* ------------------------------------------------------------------------
\* Properties of the zone store
\* ------------------------------------------------------------------------

\* every index field of every row is within [0, 100]
IndexRange ==
  \A i \in 1..Len(rows) : \A f \in FieldSet :
    rows[i][f] >= 0 /\ rows[i][f] <= 10000

\* a request with the right secret for a zone that has a row is never
\* refused, whatever its deltas: it is answered 200, or 500 if the commit
\* itself failed
NeverRejected ==
  \A w \in Sessions :
    (sess[w].pc = "done" /\ sess[w].header = PIPELINE_SECRET
       /\ HasRow(rows, sess[w].area_name))
    => sess[w].status \in {200, 500}

\* worker w commits in this step a call that no other call overlapped: the
\* row is still as the call loaded it
CommitsAlone(w) ==
  /\ sess[w].pc = "loaded"
  /\ sess'[w].status = 200
  /\ rows[RowOf(rows, sess[w].area_name)] = sess[w].loaded[1]

\* the exact value current + delta, in thousandths
ExactTarget(current, delta) == 10 * current + delta

\* such a commit leaves a field whose delta takes it below 0 at exactly 0
\* and one whose delta takes it above 100 at exactly 100
ClampedAtCommit ==
  \A w \in Sessions :
    CommitsAlone(w) =>
      LET i == RowOf(rows, sess[w].area_name)
      IN  \A f \in FieldSet :
            LET d == sess[w].deltas[DeltaKey(f)]
            IN  /\ (d # 0 /\ ExactTarget(rows[i][f], d) < 0)
                     => rows'[i][f] = 0
                /\ (d # 0 /\ ExactTarget(rows[i][f], d) > 100000)
                     => rows'[i][f] = 10000

\* C1: in every reachable state each of the nine index fields of every zone
\* is within [0, 100]; an apply_delta call whose delta would take a field
\* below 0 leaves it at exactly 0, one that would take it above 100 leaves
\* it at exactly 100, and the call is carried out, not refused.
C1_IndicesClamped ==
  /\ []IndexRange
  /\ []NeverRejected
  /\ [][ClampedAtCommit]_vars

\* a call has been answered 200 after taking one field of Park Street down
\* to 0 and another up to 100
C1_Witness ==
  /\ HasRow(rows, "Park Street")
  /\ rows[RowOf(rows, "Park Street")].commercial_rent_index = 0
  /\ rows[RowOf(rows, "Park Street")].competition_index = 10000
  /\ \E w \in Sessions :
       /\ sess[w].status = 200
       /\ sess[w].area_name = "Park Street"
       /\ sess[w].deltas[DeltaKey("commercial_rent_index")] = -120000
       /\ sess[w].deltas[DeltaKey("competition_index")] = 100000

\* ------------------------------------------------------------------------
\* Properties of the scoring of one zone
\* ------------------------------------------------------------------------

\* the zone of the scoring passed the budget test
Passed == Len(scoring.scored) = 1

\* C2: a zone passes the affordability filter if and only if
\* (commercial_rent_index / 100) * 300000 <= budget * 1.5, equality
\* included.  With the rent index in hundredths the two sides are
\* 30 * index and 1.5 * budget, so the condition is 20 * index <= budget.
C2_FilterIffWithinBudget ==
  scoring.done =>
    (Passed <=> 20 * scoring.input.area.commercial_rent_index
                  <= scoring.input.budget_range)

\* the weights and the clustering benefit factor of a scoring, in hundredths
Hundredths(x) == PyRound(x, 100)
WeightRow(row) == [i \in 1..3 |-> Hundredths(row[i])]

\* sum of weight times index over three fields of a zone: the weighted sum
\* of the indices divided by 100, in millionths
Weighted(w, a, b, c) == w[1] * a + w[2] * b + w[3] * c

\* demand and growth in millionths, friction in hundred-millionths, with the
\* competition index first multiplied by (1 - clustering benefit)
ExactDemand(area, profile) ==
  Weighted(WeightRow(profile[1]), area.income_index, area.foot_traffic_proxy,
           area.population_density_index)
ExactFriction(area, cbf, profile) ==
  Weighted(WeightRow(profile[2]),
           area.competition_index * (100 - Hundredths(cbf)),
           100 * area.commercial_rent_index, 100 * area.accessibility_penalty)
ExactGrowth(area, profile) ==
  Weighted(WeightRow(profile[3]), area.area_growth_trend,
           area.vacancy_rate_improvement, area.infrastructure_investment_index)

\* 100 * (0.40 * demand - 0.35 * friction + 0.25 * growth), in units of
\* one twenty-millionth
ExactScore(area, cbf, profile) ==
  800 * ExactDemand(area, profile) - 7 * ExactFriction(area, cbf, profile)
  + 500 * ExactGrowth(area, profile)

\* n * unit is v rounded to a multiple of unit
RoundedTo(n, unit, v) == 2 * Abs(n * unit - v) <= unit

\* C6: the display score is 100 * (0.40 * demand - 0.35 * friction
\* + 0.25 * growth) rounded to one decimal, the sub-scores being the weighted
\* sums of the indices divided by 100 with the competition index first
\* multiplied by (1 - clustering benefit); Park Street scored for a
\* restaurant has the display score 26.2.
C6_DisplayScoreFormula ==
  (scoring.done /\ Passed) =>
    LET area == scoring.input.area
        cbf  == scoring.clustering_benefit_factor
        prof == scoring.profile
        out  == scoring.scored[1]
    IN  /\ RoundedTo(out.score, 2000000, ExactScore(area, cbf, prof))
        /\ RoundedTo(out.demand_score, 100, ExactDemand(area, prof))
        /\ RoundedTo(out.friction_score, 10000, ExactFriction(area, cbf, prof))
        /\ RoundedTo(out.growth_score, 100, ExactGrowth(area, prof))
        /\ (area = KOLKATA_AREAS[1]
            /\ Strip(Lower(scoring.input.business_type)) = K_restaurant)
           => out.score = 262

C6_Witness ==
  /\ scoring.done /\ Passed
  /\ scoring.input.area = KOLKATA_AREAS[1]
  /\ scoring.input.business_type = K_restaurant
  /\ scoring.scored[1].score = 262

\* C7: for a zone with its nine indices within [0, 100] and any business
\* type, the demand, friction and growth sub-scores are each within [0, 1].
C7_SubScoresInUnitRange ==
  (scoring.done /\ Passed
   /\ \A f \in FieldSet : scoring.input.area[f] \in 0..10000) =>
    /\ scoring.scored[1].demand_score \in 0..10000
    /\ scoring.scored[1].friction_score \in 0..10000
    /\ scoring.scored[1].growth_score \in 0..10000

C7_Witness ==
  /\ scoring.done /\ Passed
  /\ \A f \in FieldSet : scoring.input.area[f] = 10000
  /\ scoring.scored[1].demand_score = 10000
  /\ scoring.scored[1].growth_score = 10000
  /\ scoring.scored[1].friction_score > 9000

\* s lower-cased and trimmed: for some split of s into leading whitespace,
\* a middle that neither starts nor ends with whitespace, and trailing
\* whitespace, k is the middle with each upper-case letter replaced
Trimmed(s, k) ==
  \E i \in 1..(Len(s) + 1) : \E j \in (i - 1)..Len(s) :
    /\ \A n \in 1..(i - 1) : s[n] \in Whitespace
    /\ \A n \in (j + 1)..Len(s) : s[n] \in Whitespace
    /\ i <= j => s[i] \notin Whitespace /\ s[j] \notin Whitespace
    /\ Len(k) = j - i + 1
    /\ \A n \in 1..Len(k) : k[n] = LowerChar(s[i + n - 1])

\* C8: resolving a business type never raises; the string is lower-cased and
\* trimmed, a known category gets the clustering benefit factor and the
\* profile of its table entry, any other string gets 0.15 and the default
\* profile (0.30/0.35/0.35, 0.40/0.35/0.25, 0.50/0.30/0.20).
C8_BusinessTypeResolution ==
  /\ Hundredths(clustering_benefit(scoring.input.business_type)) \in 0..100
  /\ Len(get_profile(scoring.input.business_type)) = 3
  /\ scoring.done =>
       LET cbf  == Hundredths(scoring.clustering_benefit_factor)
           prof == [i \in 1..3 |-> WeightRow(scoring.profile[i])]
           Known == {k \in DOMAIN ClusteringTable :
                       Trimmed(scoring.input.business_type, k)}
       IN  /\ DOMAIN ProfileTable = DOMAIN ClusteringTable
           /\ Cardinality(DOMAIN ClusteringTable) = 12
           /\ \A k \in Known : cbf = ClusteringTable[k] /\ prof = ProfileTable[k]
           /\ Known = {} =>
                /\ cbf = 15
                /\ prof = <<<<30, 35, 35>>, <<40, 35, 25>>, <<50, 30, 20>>>>

C8_Witness ==
  /\ scoring.done
  /\ scoring.input.business_type = <<" ", "C", "A", "F", "E", " ">>
  /\ Hundredths(scoring.clustering_benefit_factor) = 50
  /\ WeightRow(scoring.profile[1]) = <<20, 35, 45>>

\* the sum of a weight triple as Python adds three floats
TripleSum(row) == FAdd(FAdd(row[1], row[2]), row[3])

\* the three triples of a profile each sum to 1.0
ProfileNormalised(profile) ==
  \A i \in 1..3 : FCmp(TripleSum(profile[i]), F1) = 0

\* a clustering benefit factor within [0, 0.5]
FactorInRange(cbf) == FGe(cbf, FZero) /\ ~FGt(cbf, Lit2(50))

\* C22: in every entry of the weight-profile table and in the default
\* profile each of the three weight triples sums to exactly 1.0, and every
\* clustering benefit factor of the table, and the default one, is within
\* [0, 0.5].  Stated of the tables and of what a scoring resolved from them.
C22_TablesNormalised ==
  /\ \A k \in DOMAIN PROFILES : ProfileNormalised(PROFILES[k])
  /\ \A k \in DOMAIN CLUSTERING_BENEFIT : FactorInRange(CLUSTERING_BENEFIT[k])
  /\ scoring.done =>
       /\ ProfileNormalised(scoring.profile)
       /\ FactorInRange(scoring.clustering_benefit_factor)

\* ------------------------------------------------------------------------
\* Properties of the analyze endpoint
\* ------------------------------------------------------------------------

\* an analyze request has been answered
Analyzed == analysis.status # 0

\* the zones of the analysis that pass the budget test, in input order
Passers ==
  SelectSeq(analysis.areas,
            LAMBDA a : affordable(a, analysis.request.budget_range))

\* the position of a result's zone in the sequence that was ranked
InputIndex(r) ==
  CHOOSE j \in 1..Len(analysis.areas) : analysis.areas[j].name = r.name

Min(a, b) == IF a < b THEN a ELSE b

\* C3: every zone of the result passed the affordability filter, and with k
\* zones passing the result has exactly min(5, k) entries.
C3_OnlyPassersRanked ==
  Analyzed =>
    LET passed == Passers
    IN  /\ Len(analysis.results) = Min(5, Len(passed))
        /\ \A i \in 1..Len(analysis.results) :
             \E j \in 1..Len(passed) :
               \A k \in {"name"} \cup FieldSet :
                 passed[j][k] = analysis.results[i][k]

C3_Witness ==
  /\ Analyzed
  /\ Len(analysis.areas) = 15
  /\ Len(Passers) = 3
  /\ Len(analysis.results) = 3

\* C4: the result is ordered by non-increasing display score, and two
\* results with equal display scores are in the order of the input.
C4_StableDescendingOrder ==
  Analyzed =>
    \A i \in 1..Len(analysis.results) : \A j \in (i + 1)..Len(analysis.results) :
      /\ analysis.results[i].score >= analysis.results[j].score
      /\ analysis.results[i].score = analysis.results[j].score
           => InputIndex(analysis.results[i]) < InputIndex(analysis.results[j])

C4_Witness ==
  /\ Analyzed
  /\ \E i \in 1..(Len(analysis.results) - 1) :
       /\ analysis.results[i].score = analysis.results[i + 1].score
       /\ analysis.results[i].name # analysis.results[i + 1].name

\* C5: the result never has more than 5 entries and the entry at 0-based
\* position i carries rank i + 1.
C5_AtMostFiveRankedInOrder ==
  Analyzed =>
    /\ Len(analysis.results) <= 5
    /\ \A i \in 1..Len(analysis.results) : analysis.results[i].rank = i

C5_Witness ==
  /\ Analyzed
  /\ Len(Passers) > 5
  /\ Len(analysis.results) = 5
  /\ analysis.results[5].rank = 5

\* C14: when no zone passes the affordability filter rank_areas returns the
\* empty list, and analyze answers 404, not 500 and not an empty success.
C14_NoPasserIsNotFound ==
  (Analyzed /\ Len(Passers) = 0) =>
    /\ analysis.results = << >>
    /\ analysis.status = 404

C14_Witness ==
  /\ analysis.status = 404
  /\ Len(analysis.areas) = 15
  /\ Len(Passers) = 0

\* C15: the total-zones-analyzed count of the analyze response equals the
\* number of zones that passed the affordability filter.
C15_CountIsPassers ==
  analysis.status = 200 => analysis.total_areas_analyzed = Len(Passers)

\* C18: analyze ranks the static dataset when the store returned no zone and
\* the store's zones when it returned at least one; after an apply_delta on
\* the seeded store the ranking has the mutated values.
C18_StaticOnlyWhenStoreEmpty ==
  Analyzed =>
    /\ read_rows = << >> => analysis.areas = KOLKATA_AREAS
    /\ read_rows # << >> => analysis.areas = get_areas(read_rows)
    /\ \A i \in 1..Len(analysis.results) :
         \A k \in FieldSet :
           analysis.results[i][k]
             = analysis.areas[InputIndex(analysis.results[i])][k]

C18_Witness ==
  /\ analysis.status = 200
  /\ read_rows # << >>
  /\ \E i \in 1..Len(analysis.results) :
       /\ analysis.results[i].name = "Park Street"
       /\ analysis.results[i].commercial_rent_index = 0
       /\ analysis.results[i].competition_index = 10000

\* a second invocation on the same zones with other demographic tags
Reinvoked ==
  rank_areas(analysis.request.business_type, <<"Retirees">>,
             analysis.request.budget_range, analysis.areas)

\* an analyze step leaves the table as it is
AnalyzeReadsOnly == analysis' # analysis => rows' = rows

ZoneIndex(table, name) == CHOOSE i \in 1..Len(table) : table[i].name = name

\* the call time of the call worker w serves
CallTime(w) == sess[w].called_at

\* in this step worker w is answered that the zone does not exist
NotFoundStep(w) == sess[w].status # 404 /\ sess'[w].status = 404

\* nothing of the table changes in such a step, and apply_delta returned
\* False for a name that has no row
NotFoundChangesNothing ==
  \A w \in Sessions :
    NotFoundStep(w) =>
      /\ rows' = rows
      /\ ~HasRow(rows, sess'[w].area_name)
      /\ sess'[w].result = "false"

\* a call for a name without a row has returned False
UnknownZoneReturnsFalse ==
  \A w \in Sessions :
    (sess[w].pc = "done" /\ sess[w].header = PIPELINE_SECRET
       /\ ~HasRow(rows, sess[w].area_name))
    => sess[w].result = "false" /\ sess[w].status = 404

\* C9: apply_delta on a zone name that is not in the store returns false and
\* changes nothing: every index field, timestamp and summary of every row is
\* the same after the call as before it.
C9_UnknownZoneUntouched ==
  /\ []UnknownZoneReturnsFalse
  /\ [][NotFoundChangesNothing]_vars

C9_Witness ==
  /\ Len(rows) = 15
  /\ \E w \in Sessions :
       /\ sess[w].area_name = "Atlantis"
       /\ sess[w].deltas[DeltaKey("commercial_rent_index")] = 1005
       /\ sess[w].status = 404
       /\ sess[w].result = "false"

\* worker w's commit succeeds in this step
CommitStep(w) == sess[w].pc = "loaded" /\ sess'[w].status = 200

\* the commit fails in this step
CommitFailStep(w) == sess[w].pc = "loaded" /\ sess'[w].status = 500

\* a successful commit writes every column the call changed, the timestamp
\* among them, in the one step; a failed one writes nothing
CommitIsAllOrNothing ==
  \A w \in Sessions :
    /\ CommitStep(w) =>
         LET i == ZoneIndex(rows, sess[w].area_name)
         IN  /\ rows'[i].last_updated = CallTime(w)
             /\ \A k \in DOMAIN rows[i] :
                  IF sess[w].row[1][k] # sess[w].loaded[1][k]
                    THEN rows'[i][k] = sess[w].row[1][k]
                    ELSE rows'[i][k] = rows[i][k]
    /\ CommitFailStep(w) => rows' = rows

\* a row carries the changes of the call of worker w, all of them
ShowsAll(r, w) ==
  \A k \in DOMAIN r :
    sess[w].row[1][k] # sess[w].loaded[1][k] => r[k] = sess[w].row[1][k]

\* what a reader got from its SELECT: a row that has the timestamp of a call
\* has all of that call's changes, and no row has the timestamp of a call
\* that is not committed or whose commit failed
ReaderSeesWholeCalls ==
  \A n \in 1..Len(read_rows) : \A w \in Sessions :
    (sess[w].row # << >> /\ read_rows[n].name = sess[w].area_name
       /\ read_rows[n].last_updated = CallTime(w))
    => /\ sess[w].status = 200
       /\ ShowsAll(read_rows[n], w)

\* the same of the table itself
FailedCallInvisible ==
  \A n \in 1..Len(rows) : \A w \in Sessions :
    (sess[w].row # << >> /\ sess[w].status # 200)
    => rows[n].last_updated # CallTime(w)

\* C10: apply_delta is atomic per zone row: a concurrent reader sees, for
\* the zone, all index fields and provenance as before the call or all as
\* after it, and after a failed commit none of the call's changes is
\* visible.
C10_ApplyDeltaAtomic ==
  /\ []ReaderSeesWholeCalls
  /\ []FailedCallInvisible
  /\ [][CommitIsAllOrNothing]_vars

\* a reader has read Park Street after a committed call and while another
\* call on the same zone is about to commit
C10_Witness ==
  /\ \E n \in 1..Len(read_rows) : \E w \in Sessions :
       /\ read_rows[n].name = "Park Street"
       /\ sess[w].status = 200
       /\ sess[w].area_name = "Park Street"
       /\ read_rows[n].last_updated = CallTime(w)
       /\ read_rows[n].commercial_rent_index = 0
       /\ read_rows[n].last_news_summary = "metro line opened"
  /\ \E v \in Sessions : sess[v].status = 500

\* the index fields of a row
IndexFields(r) == [f \in FieldSet |-> r[f]]

\* the index fields after the calls of workers v and w in this order from
\* the row both loaded
Serial(v, w) ==
  IndexFields(apply_fields(
    apply_fields(sess[v].loaded[1], sess[v].deltas, sess[v].source_summary,
                 sess[v].called_at),
    sess[w].deltas, sess[w].source_summary, sess[w].called_at))

\* both workers have committed calls on the same zone that loaded the same
\* row, and no later call on the zone has been committed
Overlapped(v, w) ==
  /\ v # w
  /\ sess[v].status = 200 /\ sess[w].status = 200
  /\ sess[v].area_name = sess[w].area_name
  /\ sess[v].loaded = sess[w].loaded
  /\ rows[ZoneIndex(rows, sess[v].area_name)].last_updated
       \in {CallTime(v), CallTime(w)}

\* C11: two overlapping apply_delta calls on the same zone leave the index
\* values that running them one after the other, in one of the two orders,
\* leaves.
C11_OverlappingCallsSerialized ==
  \A v \in Sessions : \A w \in Sessions :
    Overlapped(v, w) =>
      IndexFields(rows[ZoneIndex(rows, sess[v].area_name)])
        \in {Serial(v, w), Serial(w, v)}

\* a commit that no other call overlapped leaves the call time and the
\* call's summary in the row
ProvenanceAtCommit ==
  \A w \in Sessions :
    CommitsAlone(w) =>
      /\ sess'[w].result = "true"
      /\ rows'[ZoneIndex(rows, sess[w].area_name)].last_updated = CallTime(w)
      /\ rows'[ZoneIndex(rows, sess[w].area_name)].last_news_summary
           = sess[w].source_summary

\* a call for a zone that has a row never returns False
MatchNeverFalse ==
  \A w \in Sessions :
    (sess[w].pc = "done" /\ sess[w].header = PIPELINE_SECRET
       /\ HasRow(rows, sess[w].area_name))
    => sess[w].result \in {"true", "raised"}

UnknownKeys(given) == DOMAIN given \ FieldSet

\* a successful commit leaves every field whose delta is missing or zero,
\* and every row of another zone, as it was
UntouchedAtCommit ==
  \A w \in Sessions :
    CommitStep(w) =>
      /\ \A f \in FieldSet :
           (f \notin DOMAIN sess[w].given \/ sess[w].given[f] = 0)
           => rows'[ZoneIndex(rows, sess[w].area_name)][f]
                = rows[ZoneIndex(rows, sess[w].area_name)][f]
      /\ \A j \in 1..Len(rows) :
           rows[j].name # sess[w].area_name => rows'[j] = rows[j]

\* a call with an unrecognised key for a zone that has a row is not refused
UnknownKeyAccepted ==
  \A w \in Sessions :
    (sess[w].pc = "done" /\ sess[w].header = PIPELINE_SECRET
       /\ HasRow(rows, sess[w].area_name) /\ UnknownKeys(sess[w].given) # {})
    => sess[w].status \in {200, 500}

\* C13: in a successful apply_delta call an index field whose delta is
\* missing, zero or given under an unrecognised key keeps exactly its value,
\* the index fields of every other zone keep theirs, and the call does not
\* fail because of the unrecognised key.
C13_UntouchedFieldsKept ==
  /\ []UnknownKeyAccepted
  /\ [][UntouchedAtCommit]_vars

C13_Witness ==
  /\ HasRow(rows, "Behala")
  /\ \E w \in Sessions :
       /\ sess[w].status = 200
       /\ sess[w].area_name = "Behala"
       /\ "rainfall_index" \in UnknownKeys(sess[w].given)
       /\ sess[w].given.area_growth_trend = 0
  /\ rows[ZoneIndex(rows, "Behala")].area_growth_trend = 4000
  /\ rows[ZoneIndex(rows, "Behala")].income_index = 5200
  /\ rows[ZoneIndex(rows, "Behala")].commercial_rent_index # 2800
  /\ IndexFields(rows[ZoneIndex(rows, "Park Street")])
       = IndexFields(KOLKATA_AREAS[1])

\* in this step worker w receives a request whose header is absent or is
\* not the secret
WrongSecretStep(w) ==
  /\ sess'[w] # sess[w]
  /\ sess'[w].called_at = now
  /\ sess'[w].header # PIPELINE_SECRET

\* such a request is answered 403 in the same step, apply_delta has not been
\* called for it (nothing loaded, nothing returned) and no row has changed
RefusedBeforeApplyDelta ==
  \A w \in Sessions :
    WrongSecretStep(w) =>
      /\ sess'[w].status = 403
      /\ sess'[w].pc = "done"
      /\ sess'[w].loaded = << >> /\ sess'[w].row = << >>
      /\ sess'[w].result = "none"
      /\ rows' = rows

\* no call of apply_delta is ever in progress or finished under a header
\* that is not the secret, and 403 is the answer to such headers only
WrongSecretNeverApplied ==
  \A w \in Sessions :
    /\ (sess[w].pc # "idle" /\ sess[w].header # PIPELINE_SECRET)
         => (sess[w].status = 403 /\ sess[w].pc = "done"
               /\ sess[w].loaded = << >>)
    /\ sess[w].status = 403 => sess[w].header # PIPELINE_SECRET

\* C21: an update-indices request whose X-Pipeline-Secret header is absent
\* or differs from the configured secret is answered as forbidden without
\* calling apply_delta, and every zone row (indices, timestamp, summary) is
\* as it was.
C21_WrongSecretForbidden ==
  /\ []WrongSecretNeverApplied
  /\ [][RefusedBeforeApplyDelta]_vars

\* a request with a wrong header that carries deltas for Park Street has
\* been answered 403 while another worker is in the middle of a call, on a
\* store whose rows are all as the seed inserted them
C21_Witness ==
  /\ Len(rows) = 15
  /\ \E v \in Sessions : \E w \in Sessions :
       /\ sess[v].pc = "loaded"
       /\ sess[w].header = "guess" /\ sess[w].status = 403
       /\ sess[w].area_name = "Park Street"
       /\ sess[w].given.commercial_rent_index = -120000
  /\ \A i \in 1..Len(rows) :
       rows[i] = NewRow(KOLKATA_AREAS[i], rows[1].last_updated)

\* the index fields and the summary of a row
IndicesAndSummary(r) ==
  [k \in FieldSet \cup {"last_news_summary"} |-> r[k]]

\* what the call of worker w leaves in its zone when it runs alone: its
\* assignments applied to the row as it was when the call read it
RunAlone(w) ==
  IndicesAndSummary(apply_fields(sess[w].loaded[1], sess[w].deltas,
                                 sess[w].source_summary, sess[w].called_at))

\* a commit of a call that no call on the same zone has run beside leaves
\* in its zone what the call leaves when run alone, whatever calls on other
\* zones ran beside it, and leaves the row of every other zone as it was
IndependentAtCommit ==
  \A w \in Sessions :
    (CommitStep(w) /\ sess[w].overlap # "same zone") =>
      /\ IndicesAndSummary(rows'[ZoneIndex(rows, sess[w].area_name)])
           = RunAlone(w)
      /\ \A j \in 1..Len(rows) :
           j # ZoneIndex(rows, sess[w].area_name) => rows'[j] = rows[j]
      /\ Len(rows') = Len(rows)

\* two committed calls on different zones, each the last one committed on
\* its zone and neither run beside a call on its own zone: each zone holds
\* what its call leaves when run alone
IndependentWhenDone ==
  \A v \in Sessions : \A w \in Sessions :
    ( /\ sess[v].status = 200 /\ sess[w].status = 200
      /\ sess[v].area_name # sess[w].area_name
      /\ sess[v].overlap # "same zone" /\ sess[w].overlap # "same zone"
      /\ rows[ZoneIndex(rows, sess[v].area_name)].last_updated = CallTime(v)
      /\ rows[ZoneIndex(rows, sess[w].area_name)].last_updated = CallTime(w) )
    => /\ IndicesAndSummary(rows[ZoneIndex(rows, sess[v].area_name)])
            = RunAlone(v)
       /\ IndicesAndSummary(rows[ZoneIndex(rows, sess[w].area_name)])
            = RunAlone(w)

\* C23: concurrent apply_delta calls on two different zones are independent:
\* under every interleaving each zone's final index values and summary are
\* what its call leaves when run alone, and neither call changes the other
\* zone's row.
C23_DifferentZonesIndependent ==
  /\ []IndependentWhenDone
  /\ [][IndependentAtCommit]_vars

\* a call on Park Street and a call on Behala have run beside each other,
\* the one that started first committing last, and both rows hold what
\* their calls assigned
C23_Witness ==
  \E v \in Sessions : \E w \in Sessions :
    /\ sess[v].status = 200 /\ sess[v].area_name = "Park Street"
    /\ sess[w].status = 200 /\ sess[w].area_name = "Behala"
    /\ CallTime(v) < CallTime(w)
    /\ sess[v].overlap = "other zone" /\ sess[w].overlap = "none"
    /\ rows[ZoneIndex(rows, "Park Street")].commercial_rent_index = 0
    /\ rows[ZoneIndex(rows, "Park Street")].last_news_summary
         = "metro line opened"
    /\ rows[ZoneIndex(rows, "Behala")].commercial_rent_index
         = new_value(2800, 1005)
    /\ rows[ZoneIndex(rows, "Behala")].commercial_rent_index # 2800
    /\ rows[ZoneIndex(rows, "Behala")].last_news_summary = ""

\* C19: last_pipeline_run returns the timestamp, zone and summary of the
\* most recent successful apply_delta call that carried a non-empty summary,
\* and nothing only if there has been no such call.
C19_LastRunIsLatestSummary == get_last_pipeline_run(rows) = last_run

\* ------------------------------------------------------------------------
\* Properties of the display score and of the reasoning
\* ------------------------------------------------------------------------

\* the nine indices of the zone scored are within [0, 100]
IndicesInRange == \A f \in FieldSet : scoring.input.area[f] \in 0..10000

\* C16: for a zone with indices within [0, 100] and any business type the
\* display score lies between 0 and 100.
C16_DisplayScoreOnScale ==
  (scoring.done /\ Passed /\ IndicesInRange) =>
    scoring.scored[1].score \in 0..1000

\* the variant of the competition sentence that the competition index
\* (hundredths) calls for
CompetitionBand(competition_index) ==
  IF competition_index >= 7000 THEN "High market saturation"
  ELSE IF competition_index >= 4500 THEN "Moderate competition"
  ELSE "Low competition"

\* C17: generate_reasoning returns exactly 3 non-empty strings, the demand,
\* the competition and the growth sentence in this order, and the
\* competition sentence is the high-saturation variant iff the competition
\* index is >= 70, the moderate one iff it is in [45, 70), the low one iff
\* it is < 45.
C17_ThreeSentencesAndBands ==
  (scoring.done /\ Passed /\ IndicesInRange) =>
    LET bullets == scoring.scored[1].reasoning
    IN  /\ Len(bullets) = 3
        /\ bullets[1].kind = "demand"
        /\ bullets[2].kind = "competition"
        /\ bullets[3].kind = "growth"
        /\ bullets[2].variant
             = CompetitionBand(scoring.input.area.competition_index)
        /\ bullets[2].competition_index = scoring.input.area.competition_index
        /\ RoundedTo(bullets[2].friction_pct, 10,
                     scoring.scored[1].friction_score)

C17_Witness ==
  /\ scoring.done /\ Passed
  /\ scoring.input.area.competition_index = 7000
  /\ Len(scoring.scored[1].reasoning) = 3
  /\ scoring.scored[1].reasoning[2].variant = "High market saturation"

\* the qualifiers and the income label that the sub-scores (ten-thousandths)
\* and the income index (hundredths) call for
DemandBand(demand) ==
  IF demand > 6500 THEN "strong"
  ELSE IF demand > 4500 THEN "moderate"
  ELSE "limited"

GrowthBand(growth) ==
  IF growth > 6000 THEN "rapidly evolving"
  ELSE IF growth > 4000 THEN "steadily developing"
  ELSE "relatively mature"

IncomeBand(income_index) ==
  IF income_index < 5500 THEN "Low"
  ELSE IF income_index < 7500 THEN "Moderate"
  ELSE "High"

\* C24: in what generate_reasoning produces the demand qualifier of sentence
\* 1 is 'strong' iff demand > 0.65, 'moderate' iff 0.45 < demand <= 0.65 and
\* 'limited' iff demand <= 0.45; the growth qualifier of sentence 3 is
\* 'rapidly evolving' iff growth > 0.60, 'steadily developing' iff
\* 0.40 < growth <= 0.60 and 'relatively mature' iff growth <= 0.40; the
\* income label is Low below 55, Moderate from 55 to below 75, High from 75.
C24_QualifiersAndIncomeLabel ==
  (scoring.done /\ Passed) =>
    /\ scoring.scored[1].reasoning[1].qualifier
         = DemandBand(scoring.scored[1].demand_score)
    /\ scoring.scored[1].reasoning[3].qualifier
         = GrowthBand(scoring.scored[1].growth_score)
    /\ scoring.scored[1].reasoning[1].income_lbl
         = IncomeBand(scoring.input.area.income_index)

\* a zone whose demand is exactly 0.65 and whose growth is exactly 0.60 has
\* been given 'moderate' and 'steadily developing'
C24_Witness ==
  /\ scoring.done /\ Passed
  /\ scoring.scored[1].demand_score = 6500
  /\ scoring.scored[1].growth_score = 6000
  /\ scoring.scored[1].reasoning[1].qualifier = "moderate"
  /\ scoring.scored[1].reasoning[3].qualifier = "steadily developing"
  /\ scoring.scored[1].reasoning[1].income_lbl = "Moderate"

\* the display score rank_areas computes for a zone of the analysis
DisplayScore(area) ==
  calculate_score(area, clustering_benefit(analysis.request.business_type),
                  get_profile(analysis.request.business_type)).score

\* C25: the result of rank_areas is a true top 5: every input zone that
\* passes the affordability filter and is absent from the result has a
\* display score less than or equal to that of every zone of the result,
\* and no input zone is in the result more than once.
C25_TrueTopFive ==
  Analyzed =>
    LET passed == Passers
        results == analysis.results
        absent == {p \in 1..Len(passed) :
                     \A i \in 1..Len(results) : results[i].name # passed[p].name}
        lowest == IF results = << >> THEN 0 ELSE results[Len(results)].score
    IN  /\ \A i \in 1..Len(results) : \A j \in 1..Len(results) :
             i # j => results[i].name # results[j].name
        /\ \A i \in 1..Len(results) : results[i].score >= lowest
        /\ \A p \in absent : DisplayScore(passed[p]) <= lowest

\* more than six zones passed, five are in the result and a zone left out
\* has a display score below that of the last zone of the result
C25_Witness ==
  /\ Analyzed
  /\ Len(analysis.results) = 5
  /\ Len(Passers) > 6
  /\ \E p \in 1..Len(Passers) :
       /\ \A i \in 1..5 : analysis.results[i].name # Passers[p].name
       /\ DisplayScore(Passers[p]) < analysis.results[5].score

\* ------------------------------------------------------------------------
\* Properties of the life of the store
\* ------------------------------------------------------------------------

\* the names of the rows of a table
Names(table) == {table[i].name : i \in 1..Len(table)}

\* no step deletes or renames a row or moves it
NeverDeleted ==
  /\ Len(rows') >= Len(rows)
  /\ \A i \in 1..Len(rows) : rows'[i].name = rows[i].name

\* a step that is not the commit of an apply_delta call (a startup, a seed
\* run) leaves every row that exists exactly as it is, and what it adds are
\* static zones whose names had no row, with their static index values
SeedOnlyInserts ==
  (\A w \in Sessions : ~CommitStep(w)) =>
    /\ \A i \in 1..Len(rows) : rows'[i] = rows[i]
    /\ \A i \in (Len(rows) + 1)..Len(rows') :
         /\ rows'[i].name \notin Names(rows)
         /\ \E j \in 1..Len(KOLKATA_AREAS) :
              AreaDict(rows'[i]) = KOLKATA_AREAS[j]

\* the commit of an apply_delta call adds no row
CommitAddsNothing ==
  (\E w \in Sessions : CommitStep(w)) => Len(rows') = Len(rows)

\* a startup that finds rows in the store changes nothing of it
StartupSeedsOnlyWhenEmpty ==
  (~started /\ started' /\ rows # << >>) => rows' = rows

\* once the server has started or seed has run, the store holds one row for
\* each static zone and no other
NamesAreStatic ==
  (started \/ rows # << >>) =>
    /\ Names(rows) = {KOLKATA_AREAS[j].name : j \in 1..Len(KOLKATA_AREAS)}
    /\ Len(rows) = Len(KOLKATA_AREAS)

\* C26: zones are created only by seeding and never deleted or reset: seed
\* inserts a static zone only when no row has its name and never modifies a
\* row, startup seeds only when the store is empty, so after any sequence
\* of startups, seed runs and apply_delta calls the zone names of the store
\* are those of the static dataset and no index value an apply_delta call
\* changed is set back to its static value.
C26_SeededOnceNeverReset ==
  /\ []NamesAreStatic
  /\ [][NeverDeleted]_vars
  /\ [][SeedOnlyInserts]_vars
  /\ [][CommitAddsNothing]_vars
  /\ [][StartupSeedsOnlyWhenEmpty]_vars

\* the server has started again after an apply_delta call took the rent
\* index of Park Street to 0: the startup read the 15 rows and the index is
\* still 0, not the static 82
C26_Witness ==
  /\ started
  /\ Len(rows) = 15
  /\ read_rows = rows
  /\ rows[ZoneIndex(rows, "Park Street")].commercial_rent_index = 0
  /\ KOLKATA_AREAS[1].commercial_rent_index = 8200
  /\ \E w \in Sessions : sess[w].status = 200 /\ sess[w].area_name = "Park Street"

====
